---- MODULE Spec2Model ----
(***************************************************************************)
(* Padel match scheduler (src/src/App.tsx): roster validation, round-count *)
(* calculation, fair-rotation schedule generation, the winner ledger and   *)
(* the statistics derived from schedule and ledger.                        *)
(*                                                                         *)
(* JavaScript arrays are sequences (array index i is sequence index i+1);  *)
(* objects keyed by player name are functions over the set of names.       *)
(***************************************************************************)
EXTENDS Integers, Sequences, FiniteSets, TLC

VARIABLES
    \* ---- React state of App (useState, lines 20-29) ----
    players, playerInput, courts, duration, roundDuration,
    schedule, error, winners, numRounds,
    crashed,        \* an exception escaped a handler / state updater
    \* ---- one generateSchedule call, loop iteration by loop iteration ----
    playerNames, genCourts, genRounds, round, playerStats, roundsArr,
    random, drawn, genPc, genResult,
    \* ---- one call of a pure function (validatePlayers, calculateRounds) ----
    call

appVars == <<players, playerInput, courts, duration, roundDuration,
             schedule, error, winners, numRounds, crashed>>
genVars == <<playerNames, genCourts, genRounds, round, playerStats, roundsArr,
             random, drawn, genPc, genResult>>
vars == <<appVars, genVars, call>>

----------------------------------------------------------------------------
(* Bounds of the model *)

MaxPlayers == 9        \* longest roster explored
MaxCourts == 2         \* largest court count explored
MaxRounds == 3         \* largest round count explored by generateSchedule
RandomGrid == 3        \* Math.random() returns v / RandomGrid, v in 0..RandomGrid-1
RandomPeriod == 4      \* the drawn values repeat with this period
MaxScheduleRounds == 2 \* longest schedule the App generates
MaxGrowth == 1         \* cells a ledger may outgrow its schedule by
AppRandomValues == 2   \* values Math.random() takes while the App generates
MaxCallDuration == 8   \* largest durationHours handed to calculateRounds
MaxCallMinutes == 60   \* largest roundDuration handed to calculateRounds
MaxCallCourts == 4     \* largest courts handed to calculateRounds

(* Program constants *)

PlayersPerCourt == 4   \* "courts * 4", slice(c * 4, (c + 1) * 4)
MinPlayers == 4        \* validatePlayers: playerNames.length < 4
Team1 == 1             \* CourtWinner 1
Team2 == 2             \* CourtWinner 2
NullWinner == 0        \* CourtWinner null
Undefined == -1        \* a hole of an array (undefined)
MinDuration == 1
MaxDuration == 8
MinRoundDuration == 5
MaxRoundDuration == 60
MinutesPerHour == 60
InitCourts == 2
InitDuration == 2
InitRoundDuration == 15

----------------------------------------------------------------------------
(* Generic helpers *)

Null == <<>>                       \* null / '' : the empty option
Some(x) == <<x>>

Min(a, b) == IF a < b THEN a ELSE b
Max(a, b) == IF a > b THEN a ELSE b

Range(s) == {s[i] : i \in DOMAIN s}

\* Array.prototype.slice(from, to) with 0 <= from, clamped to the length
slice(s, from, to) ==
    LET hi == Min(to, Len(s))
    IN IF from >= hi THEN <<>> ELSE SubSeq(s, from + 1, hi)

\* number of elements of s equal to x
Occurrences(s, x) == Cardinality({i \in DOMAIN s : s[i] = x})

RECURSIVE SumSeq(_)
SumSeq(s) == IF s = <<>> THEN 0 ELSE Head(s) + SumSeq(Tail(s))

\* Array.prototype.flat() of an array of arrays
RECURSIVE flat(_)
flat(ss) == IF ss = <<>> THEN <<>> ELSE Head(ss) \o flat(Tail(ss))

AllNames == <<"A", "B", "C", "D", "E", "F", "G", "H", "I", "J", "K", "L", "M">>

\* the rosters A, AB, ABC, ... of pairwise distinct names
Roster(n) == SubSeq(AllNames, 1, n)

\* name lists handed to the validator: the rosters, and the rosters with one
\* entry repeating an earlier one
NameLists ==
    {Roster(n) : n \in 0..MaxPlayers}
    \cup {[Roster(n) EXCEPT ![i] = AllNames[j]] :
            <<n, i, j>> \in {t \in (1..MaxPlayers) \X (1..MaxPlayers) \X (1..MaxPlayers) :
                                t[3] < t[2] /\ t[2] <= t[1]}}

----------------------------------------------------------------------------
(* calculateRounds, lines 50-56 *)

\* variant: the clamp of line 54 is missing
calculateRoundsMutant(durationHours, roundDur, c) ==
    (((durationHours * MinutesPerHour) \div roundDur) \div c) * c

\* variant: raw is rounded up to a multiple of the court count
calculateRoundsUp(durationHours, roundDur, c) ==
    LET raw == (durationHours * MinutesPerHour) \div roundDur
    IN ((raw + c - 1) \div c) * c

calculateRounds(durationHours, roundDur, c) ==
    LET raw == (durationHours * MinutesPerHour) \div roundDur
        multiple == (raw \div c) * c
    IN IF multiple < c THEN c ELSE multiple

----------------------------------------------------------------------------
(* validatePlayers, lines 59-77.  A message is the tuple of the parts of   *)
(* its template string; null is Null.                                      *)

\* variant: the names are compared before the courts are looked at
validatePlayersMutant(names, c) ==
    IF Len(names) < MinPlayers
      THEN Some(<<"Please enter at least 4 players. You entered ", Len(names), ".">>)
    ELSE IF Cardinality(Range(names)) # Len(names)
      THEN Some(<<"Please ensure all player names are unique.">>)
    ELSE IF c < 1
      THEN Some(<<"There must be at least 1 court.">>)
    ELSE IF Len(names) < c * PlayersPerCourt
      THEN Some(<<"You need at least ", c * PlayersPerCourt, " players for ", c,
                  " courts (4 per court).">>)
    ELSE Null

\* variant: the rule of lines 69-71 is checked before the rule of lines 66-68
validatePlayersSwapped(names, c) ==
    IF Len(names) < MinPlayers
      THEN Some(<<"Please enter at least 4 players. You entered ", Len(names), ".">>)
    ELSE IF c < 1
      THEN Some(<<"There must be at least 1 court.">>)
    ELSE IF c > Len(names) \div PlayersPerCourt
      THEN Some(<<"Too many courts for the number of players. Max courts: ",
                  Len(names) \div PlayersPerCourt>>)
    ELSE IF Len(names) < c * PlayersPerCourt
      THEN Some(<<"You need at least ", c * PlayersPerCourt, " players for ", c,
                  " courts (4 per court).">>)
    ELSE IF Cardinality(Range(names)) # Len(names)
      THEN Some(<<"Please ensure all player names are unique.">>)
    ELSE Null

validatePlayers(names, c) ==
    IF Len(names) < MinPlayers
      THEN Some(<<"Please enter at least 4 players. You entered ", Len(names), ".">>)
    ELSE IF c < 1
      THEN Some(<<"There must be at least 1 court.">>)
    ELSE IF Len(names) < c * PlayersPerCourt
      THEN Some(<<"You need at least ", c * PlayersPerCourt, " players for ", c,
                  " courts (4 per court).">>)
    ELSE IF c > Len(names) \div PlayersPerCourt
      THEN Some(<<"Too many courts for the number of players. Max courts: ",
                  Len(names) \div PlayersPerCourt>>)
    ELSE IF Cardinality(Range(names)) # Len(names)
      THEN Some(<<"Please ensure all player names are unique.">>)
    ELSE Null

----------------------------------------------------------------------------
(* shuffleArray, lines 32-39: Fisher-Yates.  `rnd` is the stream of values *)
(* Math.random() yields (each v stands for v / RandomGrid), `k` the number *)
(* of values already consumed.                                             *)

Streams == [1..RandomPeriod -> 0..(RandomGrid - 1)]

\* the streams the App specifications draw from: one value repeated
AppStreams ==
    {[i \in 1..RandomPeriod |-> v] : v \in 0..(Min(AppRandomValues, RandomGrid) - 1)}

mathRandom(rnd, k) == rnd[(k % Len(rnd)) + 1]

swap(s, a, b) == [s EXCEPT ![a] = s[b], ![b] = s[a]]

\* the loop "for (i = length - 1; i > 0; i--)", i being the array index
RECURSIVE shuffleLoop(_, _, _, _)
shuffleLoop(shuffled, i, rnd, k) ==
    IF i > 0
      THEN LET j == (mathRandom(rnd, k) * (i + 1)) \div RandomGrid
           IN shuffleLoop(swap(shuffled, i + 1, j + 1), i - 1, rnd, k + 1)
      ELSE shuffled

shuffleArray(array, rnd, k) == shuffleLoop(array, Len(array) - 1, rnd, k)

\* number of Math.random() calls of one shuffleArray(array)
shuffleDraws(array) == Max(Len(array) - 1, 0)

----------------------------------------------------------------------------
(* generateSchedule, lines 80-104 *)

\* lines 83-85: playerStats[name] = 0
initialStats(names) == [n \in Range(names) |-> 0]

\* line 88: the comparator (a, b) => playerStats[a] - playerStats[b]
\* variant: the comparator orders by most games
compareGamesMutant(stats, a, b) == stats[b] - stats[a]
compareGames(stats, a, b) == stats[a] - stats[b]

\* Array.prototype.sort is stable: an element goes before the first element
\* that the comparator orders strictly after it
\* variant: an element goes before the elements the comparator calls equal,
\* as in a sort that is not stable
RECURSIVE insertSortedMutant(_, _, _)
insertSortedMutant(sorted, x, stats) ==
    IF sorted = <<>> THEN <<x>>
    ELSE IF compareGames(stats, x, Head(sorted)) <= 0 THEN <<x>> \o sorted
    ELSE <<Head(sorted)>> \o insertSortedMutant(Tail(sorted), x, stats)

RECURSIVE insertSorted(_, _, _)
insertSorted(sorted, x, stats) ==
    IF sorted = <<>> THEN <<x>>
    ELSE IF compareGames(stats, x, Head(sorted)) < 0 THEN <<x>> \o sorted
    ELSE <<Head(sorted)>> \o insertSorted(Tail(sorted), x, stats)

RECURSIVE sortLoop(_, _, _)
sortLoop(sorted, rest, stats) ==
    IF rest = <<>> THEN sorted
    ELSE sortLoop(insertSorted(sorted, Head(rest), stats), Tail(rest), stats)

\* line 88: [...playerNames].sort(...)
\* variant: the roster is not sorted
sortedPlayersMutant(names, stats) == names
sortedPlayers(names, stats) == sortLoop(<<>>, names, stats)

\* line 90
\* variant: the selection starts one player late
selectedPlayersMutant(sorted, c) == slice(sorted, 1, c * PlayersPerCourt + 1)
selectedPlayers(sorted, c) == slice(sorted, 0, c * PlayersPerCourt)

\* line 91
\* variant: the resting slice starts one player late
restingPlayersMutant(sorted, c) == slice(sorted, c * PlayersPerCourt + 1, Len(sorted))
restingPlayers(sorted, c) == slice(sorted, c * PlayersPerCourt, Len(sorted))

\* lines 94-97
\* variant: a court slice ends one player early
courtAssignmentsMutant(shuffledSelected, c) ==
    [k \in 1..c |-> slice(shuffledSelected, (k - 1) * PlayersPerCourt,
                          k * PlayersPerCourt - 1)]
courtAssignments(shuffledSelected, c) ==
    [k \in 1..c |-> slice(shuffledSelected, (k - 1) * PlayersPerCourt,
                          k * PlayersPerCourt)]

\* lines 98-100: playerStats[player]++ for every selected player
\* variant: the first selected player is not counted
countGamesMutant(stats, selected) ==
    [n \in DOMAIN stats |-> IF n = selected[1] THEN stats[n] ELSE stats[n] + Occurrences(selected, n)]
countGames(stats, selected) ==
    [n \in DOMAIN stats |-> stats[n] + Occurrences(selected, n)]

\* one iteration of the loop of lines 86-102
playRound(names, c, stats, rnd, k) ==
    LET sorted == sortedPlayers(names, stats)
        selected == selectedPlayers(sorted, c)
        shuffledSelected == shuffleArray(selected, rnd, k)
    IN [match |-> [courts |-> courtAssignments(shuffledSelected, c),
                   resting |-> restingPlayers(sorted, c)],
        stats |-> countGames(stats, selected),
        drawn |-> k + shuffleDraws(selected)]

\* the loop of lines 86-102 from iteration r on
RECURSIVE generateLoop(_, _, _, _, _, _, _, _)
generateLoop(names, c, rounds, r, stats, arr, rnd, k) ==
    IF r < rounds
      THEN LET it == playRound(names, c, stats, rnd, k)
           IN generateLoop(names, c, rounds, r + 1, it.stats,
                           Append(arr, it.match), rnd, it.drawn)
      ELSE [rounds |-> arr]

generateSchedule(names, c, rounds, rnd) ==
    generateLoop(names, c, rounds, 0, initialStats(names), <<>>, rnd, 0)

----------------------------------------------------------------------------
(* Statistics, lines 137-176; `sched` is the schedule state (Null or Some) *)

\* getPlayerStats, lines 137-149 (every schedule is generated from the roster
\* stored with it, so the players on its courts are keys of stats)
getPlayerStats(sched, roster) ==
    IF sched = Null THEN <<>>
    ELSE LET appearances == flat([r \in DOMAIN sched[1].rounds |->
                                     flat(sched[1].rounds[r].courts)])
         IN [p \in Range(roster) |-> Occurrences(appearances, p)]

----------------------------------------------------------------------------
(* Winner statistics and the winner ledger, lines 152-191 *)

\* lines 162-172: the players one ledger cell credits with a win
\* variant: Team 2 is taken to be positions 1 and 2
creditedPlayersMutant(court, winner) ==
    IF winner = Team1 THEN slice(court, 0, 2)
    ELSE IF winner = Team2 THEN slice(court, 1, 3)
    ELSE <<>>

\* variant: a win is credited to the four players of the court
creditedPlayersAll(court, winner) ==
    IF winner = Team1 \/ winner = Team2 THEN slice(court, 0, 4) ELSE <<>>

creditedPlayers(court, winner) ==
    IF winner = Team1 THEN slice(court, 0, 2)
    ELSE IF winner = Team2 THEN slice(court, 2, 4)
    ELSE <<>>

\* getPlayerWins, lines 152-176: the forEach over winners skips the rows and
\* cells for which the schedule has no round or court
getPlayerWins(sched, roster, ledger) ==
    IF sched = Null THEN <<>>
    ELSE LET rounds == sched[1].rounds
             credits == flat([r \in DOMAIN ledger |->
                 IF r \notin DOMAIN rounds THEN <<>>
                 ELSE flat([c \in DOMAIN ledger[r] |->
                        IF c \notin DOMAIN rounds[r].courts THEN <<>>
                        ELSE creditedPlayers(rounds[r].courts[c], ledger[r][c])])])
         IN [p \in Range(roster) |-> Occurrences(credits, p)]

\* getLeaderboard, lines 179-182.  Object.entries lists the keys of wins in
\* the order getPlayerWins created them, the order of the roster (line 155);
\* an entry is <<player, wins>>.
objectEntries(wins, roster) ==
    LET firstIndexes == SelectSeq([i \in DOMAIN roster |-> i],
                           LAMBDA i : \A j \in 1..(i - 1) : roster[j] # roster[i])
    IN [k \in DOMAIN firstIndexes |->
           <<roster[firstIndexes[k]], wins[roster[firstIndexes[k]]]>>]

\* line 181: the comparator (a, b) => b[1] - a[1]
\* variant: the comparator orders by fewest wins
compareWinsMutant(a, b) == a[2] - b[2]
compareWins(a, b) == b[2] - a[2]

\* the stable sort of line 181
RECURSIVE insertEntry(_, _)
insertEntry(sorted, x) ==
    IF sorted = <<>> THEN <<x>>
    ELSE IF compareWins(x, Head(sorted)) < 0 THEN <<x>> \o sorted
    ELSE <<Head(sorted)>> \o insertEntry(Tail(sorted), x)

RECURSIVE sortEntries(_, _)
sortEntries(sorted, rest) ==
    IF rest = <<>> THEN sorted
    ELSE sortEntries(insertEntry(sorted, Head(rest)), Tail(rest))

getLeaderboard(sched, roster, ledger) ==
    IF sched = Null THEN <<>>
    ELSE sortEntries(<<>>, objectEntries(getPlayerWins(sched, roster, ledger), roster))

\* lines 122 and 132: Array(rounds).fill(null).map(() => Array(courts).fill(null))
\* variant: a ledger of the right size is kept
freshWinnersMutant(rounds, c) ==
    IF Len(winners) = rounds /\ \A r \in DOMAIN winners : Len(winners[r]) = c
      THEN winners
      ELSE [r \in 1..rounds |-> [k \in 1..c |-> NullWinner]]

freshWinners(rounds, c) == [r \in 1..rounds |-> [k \in 1..c |-> NullWinner]]

\* variant of the updater below: the winner is written to the cell of the
\* court in every round (the rows are not copied)
setCourtWinnerUpdateMutant(prev, roundIdx, courtIdx, winner) ==
    IF roundIdx < 0 \/ roundIdx >= Len(prev)
      THEN [threw |-> TRUE, updated |-> prev]
    ELSE LET write(row) == IF courtIdx < 0 \/ courtIdx >= Len(row) THEN row
                           ELSE [row EXCEPT ![courtIdx + 1] = winner]
         IN [threw |-> FALSE, updated |-> [r \in DOMAIN prev |-> write(prev[r])]]

\* the state updater of setCourtWinner, lines 186-190.  updated[roundIdx] is
\* undefined outside the rows, and assigning into it throws a TypeError; an
\* assignment past the end of a row lengthens the row, leaving holes; a
\* negative courtIdx sets a property that is no array element.
setCourtWinnerUpdate(prev, roundIdx, courtIdx, winner) ==
    IF roundIdx < 0 \/ roundIdx >= Len(prev)
      THEN [threw |-> TRUE, updated |-> prev]
    ELSE LET row == prev[roundIdx + 1]
             newRow == IF courtIdx < 0 THEN row
                       ELSE IF courtIdx < Len(row)
                         THEN [row EXCEPT ![courtIdx + 1] = winner]
                       ELSE [k \in 1..(courtIdx + 1) |->
                               IF k <= Len(row) THEN row[k]
                               ELSE IF k = courtIdx + 1 THEN winner
                               ELSE Undefined]
         IN [threw |-> FALSE, updated |-> [prev EXCEPT ![roundIdx + 1] = newRow]]

----------------------------------------------------------------------------
(* Input handling, lines 42-47 and 194.  The text of the textarea is the   *)
(* sequence of its segments between the separators "," and "\n"; a segment *)
(* is a text without surrounding white space and the white space around it *)

Seg(pad, text) == [pad |-> pad, text |-> text]

trim(segment) == segment.text

\* parsePlayers, lines 42-47
parsePlayers(input) ==
    SelectSeq([i \in DOMAIN input |-> trim(input[i])], LAMBDA name : name # "")

\* line 194
maxCourts(input) == Max(1, Len(parsePlayers(input)) \div PlayersPerCourt)

Text(names) == [i \in DOMAIN names |-> Seg(0, names[i])]

EmptyText == <<Seg(0, "")>>

\* what the user types: nothing; four names, one of them twice; four names
\* with white space and an empty entry; enough names for the initial two courts
InputTexts ==
    { EmptyText,
      Text(<<"A", "B", "A", "C">>),
      <<Seg(0, "A"), Seg(1, "B"), Seg(0, ""), Seg(1, "C"), Seg(0, "D")>>,
      Text(Roster(InitCourts * PlayersPerCourt)) }

\* values of the range inputs, some outside the range the handlers clamp to
CourtInputs == 0..(MaxCourts + 1)
DurationInputs == {0, 1, 2}
RoundDurationInputs == {15, 60, 61}

----------------------------------------------------------------------------
(* Initial values *)

\* useState initial values, lines 20-29
AppInit ==
    /\ players = <<>>
    /\ playerInput = EmptyText
    /\ courts = InitCourts
    /\ duration = InitDuration
    /\ roundDuration = InitRoundDuration
    /\ schedule = Null
    /\ error = Null
    /\ winners = <<>>
    /\ numRounds = 0
    /\ crashed = FALSE

\* no generateSchedule call is being followed
GenIdle ==
    /\ playerNames = <<>>
    /\ genCourts = 0
    /\ genRounds = 0
    /\ round = 0
    /\ playerStats = <<>>
    /\ roundsArr = <<>>
    /\ random = <<>>
    /\ drawn = 0
    /\ genPc = "idle"
    /\ genResult = Null

CallIdle == call = [fn |-> "none"]

----------------------------------------------------------------------------
(* SpecGen: one call generateSchedule(playerNames, courts, rounds) on      *)
(* inputs that pass validatePlayers, one loop iteration per step.          *)

InitGen ==
    /\ AppInit
    /\ CallIdle
    /\ playerNames \in NameLists
    /\ genCourts \in 1..MaxCourts
    /\ validatePlayers(playerNames, genCourts) = Null
    /\ genRounds \in 1..MaxRounds
    /\ random \in Streams
    /\ round = 0
    /\ playerStats = initialStats(playerNames)
    /\ roundsArr = <<>>
    /\ drawn = 0
    /\ genPc = "loop"
    /\ genResult = Null

\* lines 86-102: one iteration of the loop
GenRound ==
    /\ genPc = "loop"
    /\ round < genRounds
    /\ LET it == playRound(playerNames, genCourts, playerStats, random, drawn)
       IN /\ roundsArr' = Append(roundsArr, it.match)
          /\ playerStats' = it.stats
          /\ drawn' = it.drawn
    /\ round' = round + 1
    /\ UNCHANGED <<playerNames, genCourts, genRounds, random, genPc, genResult>>
    /\ UNCHANGED <<appVars, call>>

\* line 103: return { rounds: roundsArr }
GenReturn ==
    /\ genPc = "loop"
    /\ ~(round < genRounds)
    /\ genPc' = "done"
    /\ genResult' = Some([rounds |-> roundsArr])
    /\ UNCHANGED <<playerNames, genCourts, genRounds, round, playerStats,
                   roundsArr, random, drawn>>
    /\ UNCHANGED <<appVars, call>>

NextGen == GenRound \/ GenReturn

SpecGen == InitGen /\ [][NextGen]_vars

----------------------------------------------------------------------------
(* Properties of generateSchedule *)

\* players placed on the courts of a round, court after court
assigned(match) == flat(match.courts)

GamesCounts == {playerStats[p] : p \in DOMAIN playerStats}
MostGames == CHOOSE m \in GamesCounts : \A x \in GamesCounts : x <= m
FewestGames == CHOOSE m \in GamesCounts : \A x \in GamesCounts : m <= x

\* number of the rounds so far in which p rests
restCount(p) == Cardinality({r \in DOMAIN roundsArr : p \in Range(roundsArr[r].resting)})

\* C1: in every round produced for a valid roster and court count, the players
\* on the courts together with the resting list are a partition of the roster:
\* every roster player occurs exactly once among them, nobody else occurs, and
\* exactly courtCount * 4 players are on courts.
C1_RoundPartitionsRoster ==
    genPc \in {"loop", "done"} =>
        \A r \in DOMAIN roundsArr :
            LET everyone == assigned(roundsArr[r]) \o roundsArr[r].resting
            IN /\ \A p \in Range(playerNames) : Occurrences(everyone, p) = 1
               /\ Range(everyone) \subseteq Range(playerNames)
               /\ Len(everyone) = Len(playerNames)
               /\ Len(assigned(roundsArr[r])) = genCourts * PlayersPerCourt

C1_Witness ==
    /\ genPc = "done"
    /\ genCourts = 2
    /\ Len(roundsArr) >= 2
    /\ roundsArr[2].resting # <<>>

\* C2: after every round the largest and the smallest cumulative games-played
\* count differ by at most 1; when the roster is exactly courtCount * 4 players
\* nobody ever rests and every count equals the number of rounds so far.
C2_GamesBalanced ==
    genPc \in {"loop", "done"} =>
        /\ MostGames - FewestGames <= 1
        /\ Len(playerNames) = genCourts * PlayersPerCourt =>
              /\ \A r \in DOMAIN roundsArr : roundsArr[r].resting = <<>>
              /\ \A p \in Range(playerNames) : playerStats[p] = round

C2_Witness ==
    /\ genPc = "loop"
    /\ round >= 2
    /\ Len(playerNames) > genCourts * PlayersPerCourt
    /\ MostGames = FewestGames + 1

\* C3: the returned schedule has exactly roundCount rounds, every round has
\* exactly courtCount courts of exactly 4 pairwise distinct players, and every
\* resting list has players.length - courtCount * 4 entries.
C3_ScheduleShape ==
    genPc = "done" =>
        /\ Len(genResult[1].rounds) = genRounds
        /\ \A r \in DOMAIN genResult[1].rounds :
              LET match == genResult[1].rounds[r]
              IN /\ Len(match.courts) = genCourts
                 /\ \A c \in DOMAIN match.courts :
                       /\ Len(match.courts[c]) = PlayersPerCourt
                       /\ Cardinality(Range(match.courts[c])) = PlayersPerCourt
                 /\ Len(match.resting) = Len(playerNames) - genCourts * PlayersPerCourt

C3_Witness ==
    /\ genPc = "done"
    /\ genCourts = 2
    /\ genRounds = 3
    /\ Len(playerNames) = 9

\* C10: for the schedule generated so far, getPlayerStats gives every roster
\* player the number of courts that contain the player, which is the number of
\* rounds minus the rounds the player rests, and is the scheduler's own
\* cumulative games-played counter.
C10_StatsMatchScheduler ==
    genPc \in {"loop", "done"} =>
        LET stats == getPlayerStats(Some([rounds |-> roundsArr]), playerNames)
        IN /\ DOMAIN stats = Range(playerNames)
           /\ \A p \in Range(playerNames) :
                 /\ stats[p] = Cardinality({<<r, c>> \in (1..round) \X (1..genCourts) :
                                              p \in Range(roundsArr[r].courts[c])})
                 /\ stats[p] = round - restCount(p)
                 /\ stats[p] = playerStats[p]

C10_Witness ==
    /\ genPc = "done"
    /\ genRounds >= 2
    /\ \E p \in Range(playerNames) : restCount(p) = 1
    /\ genResult # Null
    /\ \E p \in Range(playerNames) : getPlayerStats(genResult, playerNames)[p] = genRounds

----------------------------------------------------------------------------
(* Spec: the App driven through its user interface *)

Init == AppInit /\ GenIdle /\ CallIdle

\* line 284: onChange of the textarea
SetPlayerInput(text) ==
    /\ ~crashed
    /\ playerInput' = text
    /\ UNCHANGED <<players, courts, duration, roundDuration, schedule, error,
                   winners, numRounds, crashed>>
    /\ UNCHANGED <<genVars, call>>

\* line 231: onChange of the courts dial
SetCourts(value) ==
    /\ ~crashed
    /\ courts' = Max(1, Min(maxCourts(playerInput), value))
    /\ UNCHANGED <<players, playerInput, duration, roundDuration, schedule, error,
                   winners, numRounds, crashed>>
    /\ UNCHANGED <<genVars, call>>

\* line 247: onChange of the duration dial
SetDuration(value) ==
    /\ ~crashed
    /\ duration' = Max(MinDuration, Min(MaxDuration, value))
    /\ UNCHANGED <<players, playerInput, courts, roundDuration, schedule, error,
                   winners, numRounds, crashed>>
    /\ UNCHANGED <<genVars, call>>

\* line 262: onChange of the round duration dial
SetRoundDuration(value) ==
    /\ ~crashed
    /\ roundDuration' = Max(MinRoundDuration, Min(MaxRoundDuration, value))
    /\ UNCHANGED <<players, playerInput, courts, duration, schedule, error,
                   winners, numRounds, crashed>>
    /\ UNCHANGED <<genVars, call>>

\* lines 117-122 and 128-132: the new schedule and its ledger
installSchedule(names, rnd) ==
    LET rounds == calculateRounds(duration, roundDuration, courts)
    IN /\ rounds <= MaxScheduleRounds
       /\ numRounds' = rounds
       /\ winners' = freshWinners(rounds, courts)
       /\ schedule' = Some(generateSchedule(names, courts, rounds, rnd))

\* lines 112-115: the roster is rejected
\* variant: the roster is stored before it is validated
rejectSubmitMutant(validationError) ==
    /\ error' = validationError[1]
    /\ players' = parsePlayers(playerInput)
    /\ UNCHANGED <<schedule, winners, numRounds>>

rejectSubmit(validationError) ==
    /\ error' = validationError[1]
    /\ UNCHANGED <<players, schedule, winners, numRounds>>

\* handleSubmit, lines 107-123; the textarea is "required" (line 287), so the
\* form is not submitted while it is empty
HandleSubmit ==
    /\ ~crashed
    /\ playerInput # EmptyText
    /\ LET names == parsePlayers(playerInput)
           validationError == validatePlayers(names, courts)
       IN IF validationError # Null
            THEN rejectSubmit(validationError)
            ELSE /\ error' = Null
                 /\ players' = names
                 /\ \E rnd \in AppStreams : installSchedule(names, rnd)
    /\ UNCHANGED <<playerInput, courts, duration, roundDuration, crashed>>
    /\ UNCHANGED <<genVars, call>>

\* line 127: the guard of handleRegenerate
\* variant: the guard only asks for the four players of one court
regenerateGuardMutant(names, c) == Len(names) >= PlayersPerCourt
regenerateGuard(names, c) == Len(names) >= c * PlayersPerCourt

\* handleRegenerate, lines 126-134; its button exists while a schedule does
\* (lines 346-354)
HandleRegenerate ==
    /\ ~crashed
    /\ schedule # Null
    /\ IF regenerateGuard(players, courts)
         THEN \E rnd \in AppStreams : installSchedule(players, rnd)
         ELSE UNCHANGED <<schedule, winners, numRounds>>
    /\ UNCHANGED <<players, playerInput, courts, duration, roundDuration, error,
                   crashed>>
    /\ UNCHANGED <<genVars, call>>

\* setCourtWinner, lines 185-191
SetCourtWinner(roundIdx, courtIdx, winner) ==
    /\ ~crashed
    /\ LET u == setCourtWinnerUpdate(winners, roundIdx, courtIdx, winner)
       IN /\ crashed' = u.threw
          /\ winners' = u.updated
    /\ UNCHANGED <<players, playerInput, courts, duration, roundDuration, schedule,
                   error, numRounds>>
    /\ UNCHANGED <<genVars, call>>

Winners == {Team1, Team2, NullWinner}

\* lines 379-416: a pair of buttons for every court of every round shown
ClickWinner ==
    /\ schedule # Null
    /\ \E roundIndex \in 0..(Len(schedule[1].rounds) - 1) :
         \E courtIdx \in 0..(Len(schedule[1].rounds[roundIndex + 1].courts) - 1) :
           \E winner \in Winners : SetCourtWinner(roundIndex, courtIdx, winner)

Dials ==
    \/ \E text \in InputTexts : SetPlayerInput(text)
    \/ \E value \in CourtInputs : SetCourts(value)
    \/ \E value \in DurationInputs : SetDuration(value)
    \/ \E value \in RoundDurationInputs : SetRoundDuration(value)

Next == Dials \/ HandleSubmit \/ HandleRegenerate \/ ClickWinner

Spec == Init /\ [][Next]_vars

----------------------------------------------------------------------------
(* SpecApi: as Spec, but setCourtWinner is called with any indices, also   *)
(* ones the schedule shown has no button for                               *)

ledgerCells(ledger) == SumSeq([r \in DOMAIN ledger |-> Len(ledger[r])])

scheduleCells ==
    IF schedule = Null THEN 0
    ELSE SumSeq([r \in DOMAIN schedule[1].rounds |-> Len(schedule[1].rounds[r].courts)])

\* there is a schedule, and (roundIdx, courtIdx) is no cell of it
OutOfRange(roundIdx, courtIdx) ==
    /\ schedule # Null
    /\ \/ roundIdx < 0
       \/ roundIdx >= Len(schedule[1].rounds)
       \/ courtIdx < 0
       \/ courtIdx >= Len(schedule[1].rounds[roundIdx + 1].courts)

CallSetCourtWinner ==
    \E roundIdx \in (-1)..MaxScheduleRounds :
      \E courtIdx \in (-1)..MaxCourts :
        \E winner \in Winners :
          /\ SetCourtWinner(roundIdx, courtIdx, winner)
          /\ ledgerCells(winners') <= scheduleCells + MaxGrowth

NextApi == Dials \/ HandleSubmit \/ HandleRegenerate \/ CallSetCourtWinner

SpecApi == Init /\ [][NextApi]_vars

----------------------------------------------------------------------------
(* SpecValidate: one call validatePlayers(playerNames, courts) *)

InitValidate ==
    /\ AppInit
    /\ GenIdle
    /\ call \in {[fn |-> "validatePlayers", playerNames |-> names, courts |-> c,
                  returned |-> FALSE, result |-> Null] :
                    names \in NameLists, c \in (-1)..(MaxCourts + 1)}

CallValidatePlayers ==
    /\ call.fn = "validatePlayers"
    /\ ~call.returned
    /\ call' = [call EXCEPT !.returned = TRUE,
                            !.result = validatePlayers(call.playerNames, call.courts)]
    /\ UNCHANGED <<appVars, genVars>>

SpecValidate == InitValidate /\ [][CallValidatePlayers]_vars

(* SpecCalc: one call calculateRounds(durationHours, roundDuration, courts) *)

InitCalc ==
    /\ AppInit
    /\ GenIdle
    /\ call \in {[fn |-> "calculateRounds", durationHours |-> d, roundDuration |-> m,
                  courts |-> c, returned |-> FALSE, result |-> 0] :
                    d \in 1..MaxCallDuration, m \in 1..MaxCallMinutes,
                    c \in 1..MaxCallCourts}

CallCalculateRounds ==
    /\ call.fn = "calculateRounds"
    /\ ~call.returned
    /\ call' = [call EXCEPT !.returned = TRUE,
                            !.result = calculateRounds(call.durationHours,
                                                       call.roundDuration, call.courts)]
    /\ UNCHANGED <<appVars, genVars>>

SpecCalc == InitCalc /\ [][CallCalculateRounds]_vars

----------------------------------------------------------------------------
(* Properties of the App *)

\* every cell of the ledger is Unset and the ledger has one row per round of
\* the schedule and one cell per court of the round
FreshLedgerFor(sched, ledger) ==
    /\ sched # Null
    /\ Len(ledger) = Len(sched[1].rounds)
    /\ \A r \in DOMAIN ledger :
          /\ Len(ledger[r]) = Len(sched[1].rounds[r].courts)
          /\ \A c \in DOMAIN ledger[r] : ledger[r][c] = NullWinner

\* the step generates a schedule: a submit that is accepted, or a regeneration
\* that passes its guard
Generates ==
    \/ HandleSubmit /\ error' = Null
    \/ HandleRegenerate /\ Len(players) >= courts * PlayersPerCourt

\* C4: whenever the schedule is replaced (an accepted submit or a regeneration,
\* also one that leaves rounds and courts as they were), the same step replaces
\* the ledger by a table of (new rounds) x (new courts) cells that are all Unset.
C4_ScheduleReplacedLedgerReset ==
    [][(schedule' # schedule \/ Generates) =>
          /\ FreshLedgerFor(schedule', winners')
          /\ Len(winners') = numRounds'
          /\ \A r \in DOMAIN winners' : Len(winners'[r]) = courts']_vars

\* a winner is recorded, and a regeneration with unchanged dials is possible
C4_Witness ==
    /\ schedule # Null
    /\ \E r \in DOMAIN winners : \E c \in DOMAIN winners[r] : winners[r][c] # NullWinner
    /\ Len(players) >= courts * PlayersPerCourt
    /\ calculateRounds(duration, roundDuration, courts) = Len(winners)
    /\ courts = Len(winners[1])
    /\ ~crashed

\* C5: setCourtWinner with an index outside the current schedule changes
\* neither the contents nor the dimensions of the ledger, and does not crash.
C5_OutOfRangeLeavesLedger ==
    [][\A roundIdx \in (-1)..MaxScheduleRounds :
         \A courtIdx \in (-1)..MaxCourts :
           \A winner \in Winners :
             (OutOfRange(roundIdx, courtIdx) /\ SetCourtWinner(roundIdx, courtIdx, winner))
                => (winners' = winners /\ ~crashed')]_vars

\* the cells of the current schedule
Cells ==
    IF schedule = Null THEN {}
    ELSE {<<r, c>> \in (1..Len(schedule[1].rounds)) \X (1..MaxCourts) :
            c <= Len(schedule[1].rounds[r].courts)}

courtOf(cell) == schedule[1].rounds[cell[1]].courts[cell[2]]

\* wins as the specification defines them: the cells won by a team the player
\* is on
countedWins(p) ==
    Cardinality({cell \in Cells :
        \/ winners[cell[1]][cell[2]] = Team1 /\ p \in {courtOf(cell)[1], courtOf(cell)[2]}
        \/ winners[cell[1]][cell[2]] = Team2 /\ p \in {courtOf(cell)[3], courtOf(cell)[4]}})

\* C6: getPlayerWins gives every roster player the number of Team1 cells whose
\* court has the player at position 0 or 1 plus the number of Team2 cells whose
\* court has the player at position 2 or 3; recording Team1 on an Unset cell
\* adds 1 to the first two players of its court and changes nobody else, and
\* setting the cell back to Unset restores every count.
C6_WinsCountCells ==
    /\ [](schedule # Null =>
            LET wins == getPlayerWins(schedule, players, winners)
            IN /\ DOMAIN wins = Range(players)
               /\ \A p \in Range(players) : wins[p] = countedWins(p))
    /\ [][\A cell \in Cells :
            (/\ winners[cell[1]][cell[2]] = NullWinner
             /\ SetCourtWinner(cell[1] - 1, cell[2] - 1, Team1))
            => LET before == getPlayerWins(schedule, players, winners)
                   after == getPlayerWins(schedule', players', winners')
                   undone == setCourtWinnerUpdate(winners', cell[1] - 1, cell[2] - 1,
                                                  NullWinner).updated
               IN /\ \A p \in Range(players) :
                       after[p] = IF p \in {courtOf(cell)[1], courtOf(cell)[2]}
                                    THEN before[p] + 1 ELSE before[p]
                  /\ getPlayerWins(schedule', players', undone) = before]_vars

C6_Witness ==
    /\ schedule # Null
    /\ \E a \in Cells : \E b \in Cells :
          /\ winners[a[1]][a[2]] = Team1
          /\ winners[b[1]][b[2]] = Team2
    /\ \E p \in Range(players) : getPlayerWins(schedule, players, winners)[p] = 2
    /\ \E p \in Range(players) : getPlayerWins(schedule, players, winners)[p] = 0

\* the rules of the validator, stated on the list itself
ValidRoster(names, c) ==
    /\ Len(names) >= 4
    /\ c >= 1
    /\ Len(names) >= c * 4
    /\ \A i \in DOMAIN names : \A j \in DOMAIN names : names[i] = names[j] => i = j

\* the violation a result of validatePlayers reports
violation(result) ==
    IF result = Null THEN "valid"
    ELSE IF result[1][1] = "Please enter at least 4 players. You entered "
      THEN "insufficient players"
    ELSE IF result[1][1] = "There must be at least 1 court."
      THEN "invalid court count"
    ELSE IF result[1][1] = "You need at least "
      THEN "insufficient players for requested courts"
    ELSE IF result[1][1] = "Please ensure all player names are unique."
      THEN "duplicate player names"
    ELSE "too many courts for player count"

\* C7: validatePlayers reports the first rule violated, in the order: fewer than
\* 4 names; courts < 1; fewer than courts * 4 names; a repeated name; and it
\* returns valid exactly when none of them is violated.
C7_ValidatorPrecedence ==
    (call.fn = "validatePlayers" /\ call.returned) =>
        LET n == Len(call.playerNames)
            c == call.courts
            repeated == \E i \in 1..n : \E j \in 1..n :
                            i # j /\ call.playerNames[i] = call.playerNames[j]
        IN /\ violation(call.result) =
                IF n < 4 THEN "insufficient players"
                ELSE IF c < 1 THEN "invalid court count"
                ELSE IF n < c * 4 THEN "insufficient players for requested courts"
                ELSE IF repeated THEN "duplicate player names"
                ELSE "valid"
           /\ (call.result = Null) <=> ValidRoster(call.playerNames, c)

C7_Witness ==
    /\ call.fn = "validatePlayers"
    /\ call.returned
    /\ call.courts = 0
    /\ Len(call.playerNames) > 4
    /\ Cardinality(Range(call.playerNames)) < Len(call.playerNames)
    /\ violation(call.result) = "invalid court count"

\* floor(a / b) for a >= 0 and b > 0
floorDiv(a, b) == CHOOSE q \in 0..a : q * b <= a /\ a < (q + 1) * b

\* C8: for positive durationHours, roundMinutes and courtCount, calculateRounds
\* returns max(courtCount, floor(floor(durationHours*60/roundMinutes)/courtCount)
\* * courtCount), a positive multiple of courtCount; (2,15,2) gives 8 and
\* (1,50,3) gives 3.
C8_RoundsFormula ==
    (call.fn = "calculateRounds" /\ call.returned) =>
        LET c == call.courts
            raw == floorDiv(call.durationHours * 60, call.roundDuration)
            expected == Max(c, floorDiv(raw, c) * c)
        IN /\ call.result = expected
           /\ call.result > 0
           /\ call.result >= c
           /\ \E k \in 1..call.result : call.result = k * c
           /\ (call.durationHours = 2 /\ call.roundDuration = 15 /\ c = 2)
                 => call.result = 8
           /\ (call.durationHours = 1 /\ call.roundDuration = 50 /\ c = 3)
                 => call.result = 3

C8_Witness ==
    /\ call.fn = "calculateRounds"
    /\ call.returned
    /\ call.durationHours = 1
    /\ call.roundDuration = 50
    /\ call.courts = 3
    /\ call.result = 3

\* the players of a schedule: those on the courts of its first round and those
\* resting in it
participants(sched) ==
    Range(flat(sched[1].rounds[1].courts)) \cup Range(sched[1].rounds[1].resting)

\* C9: a submit whose roster fails validation leaves the stored roster, the
\* schedule and the ledger as they were and only sets the error message; and
\* no step replaces the schedule without replacing its ledger and its roster.
C9_RejectedSubmitChangesNothing ==
    [][/\ (HandleSubmit /\ ~ValidRoster(parsePlayers(playerInput), courts))
            => /\ UNCHANGED <<players, schedule, winners>>
               /\ error' # Null
       /\ (schedule' # schedule)
            => /\ FreshLedgerFor(schedule', winners')
               /\ participants(schedule') = Range(players')]_vars

\* a submit was rejected after a schedule was generated and a winner recorded
C9_Witness ==
    /\ error # Null
    /\ schedule # Null
    /\ \E r \in DOMAIN winners : \E c \in DOMAIN winners[r] : winners[r][c] # NullWinner
    /\ Range(parsePlayers(playerInput)) # Range(players)

----------------------------------------------------------------------------
(* The leaderboard *)

\* C11: getLeaderboard returns one <<player, wins>> entry for every player of
\* the roster and no other entry, the entry of a player carries the player's
\* getPlayerWins count, and the win counts never increase along the list.
C11_LeaderboardSorted ==
    LET board == getLeaderboard(schedule, players, winners)
        wins == getPlayerWins(schedule, players, winners)
    IN /\ Len(board) = Len(players)
       /\ \A p \in Range(players) :
             /\ Cardinality({i \in DOMAIN board : board[i][1] = p}) = 1
             /\ \A i \in DOMAIN board : board[i][1] = p => board[i][2] = wins[p]
       /\ \A i \in DOMAIN board : board[i][1] \in Range(players)
       /\ \A i \in DOMAIN board : \A j \in DOMAIN board :
             i < j => board[i][2] >= board[j][2]

\* three different win counts, and the leader is not the first of the roster
C11_Witness ==
    /\ schedule # Null
    /\ LET board == getLeaderboard(schedule, players, winners)
       IN /\ board[1][1] # players[1]
          /\ Cardinality({board[i][2] : i \in DOMAIN board}) >= 3

----------------------------------------------------------------------------
(* The ledger and the schedule it belongs to *)

\* C12: in every state reached by submits, regenerations, dial changes and
\* setCourtWinner calls, whenever there is a schedule the ledger has exactly one
\* row per round of it, every row has exactly one cell per court of its round,
\* and every cell is Team1, Team2 or Unset.
C12_LedgerMatchesSchedule ==
    schedule # Null =>
        /\ Len(winners) = Len(schedule[1].rounds)
        /\ \A r \in DOMAIN winners :
              /\ r \in DOMAIN schedule[1].rounds
              /\ Len(winners[r]) = Len(schedule[1].rounds[r].courts)
              /\ \A c \in DOMAIN winners[r] : winners[r][c] \in Winners

----------------------------------------------------------------------------
(* What a schedule is generated from *)

\* C13: every step that generates a schedule, a submit or a regeneration,
\* generates it from a roster and a court count that satisfy every rule of the
\* validator at that moment: at least 4 players, at least 1 court, at least
\* courts * 4 players, no name twice; also when the court count was changed
\* after the last accepted submit.
C13_GeneratesFromValidInput ==
    [][(schedule' # schedule \/ Generates) =>
          /\ ValidRoster(players', courts')
          /\ validatePlayers(players', courts') = Null
          /\ Len(schedule'[1].rounds[1].courts) = courts'
          /\ participants(schedule') = Range(players')]_vars

\* a schedule generated for another court count than the dial now shows, from a
\* roster that allows a regeneration with the changed count
C13_Witness ==
    /\ schedule # Null
    /\ Len(schedule[1].rounds[1].courts) # courts
    /\ regenerateGuard(players, courts)
    /\ calculateRounds(duration, roundDuration, courts) <= MaxScheduleRounds
    /\ Range(parsePlayers(playerInput)) # Range(players)
    /\ ~crashed

----------------------------------------------------------------------------
(* Recording a winner *)

\* C14: setCourtWinner(r, c, w) with (r, c) a cell of the current schedule and
\* w one of Team1, Team2, Unset sets that cell of the ledger to w whatever it
\* held before, and leaves every other cell, the dimensions of the ledger, the
\* schedule and the roster as they were.
C14_WriteOneCell ==
    /\ [](\A cell \in Cells : \A w \in Winners :
            LET u == setCourtWinnerUpdate(winners, cell[1] - 1, cell[2] - 1, w)
            IN /\ ~u.threw
               /\ u.updated[cell[1]][cell[2]] = w
               /\ DOMAIN u.updated = DOMAIN winners
               /\ \A r \in DOMAIN winners :
                     /\ DOMAIN u.updated[r] = DOMAIN winners[r]
                     /\ \A c \in DOMAIN winners[r] :
                           <<r, c>> # cell => u.updated[r][c] = winners[r][c])
    /\ [][\A cell \in Cells : \A w \in Winners :
            SetCourtWinner(cell[1] - 1, cell[2] - 1, w) =>
               /\ winners'[cell[1]][cell[2]] = w
               /\ \A r \in DOMAIN winners : \A c \in DOMAIN winners[r] :
                     <<r, c>> # cell => winners'[r][c] = winners[r][c]
               /\ ~crashed'
               /\ UNCHANGED <<schedule, players, numRounds>>]_vars

\* a ledger that holds Team2 in one cell, Team1 in a second and Unset in a
\* third, so that both a winner and Unset can be overwritten
C14_Witness ==
    /\ schedule # Null
    /\ ~crashed
    /\ \E a \in Cells : \E b \in Cells : \E u \in Cells :
          /\ winners[a[1]][a[2]] = Team2
          /\ winners[b[1]][b[2]] = Team1
          /\ winners[u[1]][u[2]] = NullWinner

----------------------------------------------------------------------------
(* Who plays and who rests: properties of the selection of generateSchedule *)

\* the position of a player in the roster, from 0
position(p) == (CHOOSE i \in DOMAIN playerNames : playerNames[i] = p) - 1

\* the games a player has played in the rounds before round r (r from 1)
gamesBefore(p, r) ==
    Cardinality({q \in 1..(r - 1) : p \in Range(assigned(roundsArr[q]))})

\* C15: in every round, every selected player p and every resting player q
\* satisfy, with the games counted before the round: p has played fewer games
\* than q, or as many and p comes before q in the roster.
C15_SelectionPriority ==
    \A r \in DOMAIN roundsArr :
      \A p \in Range(assigned(roundsArr[r])) :
        \A q \in Range(roundsArr[r].resting) :
          \/ gamesBefore(p, r) < gamesBefore(q, r)
          \/ /\ gamesBefore(p, r) = gamesBefore(q, r)
             /\ position(p) < position(q)

\* a later round in which one selected player has played fewer games than a
\* resting player and another as many
C15_Witness ==
    \E r \in DOMAIN roundsArr :
      /\ r >= 2
      /\ \E q \in Range(roundsArr[r].resting) :
           /\ \E p \in Range(assigned(roundsArr[r])) : gamesBefore(p, r) < gamesBefore(q, r)
           /\ \E p \in Range(assigned(roundsArr[r])) :
                gamesBefore(p, r) = gamesBefore(q, r) /\ gamesBefore(p, r) > 0

\* the roster positions (r * k + i) mod n for 0 <= i < k
window(r, k, n) == {(r * k + i) % n : i \in 0..(k - 1)}

\* C17: the players selected in round r (from 0) are exactly those at the
\* roster positions (r * k + i) mod n for 0 <= i < k, where n is the number of
\* players and k = courts * 4; the shuffle only changes where they are placed.
C17_SlidingWindow ==
    \A r \in DOMAIN roundsArr :
      LET k == genCourts * PlayersPerCourt
          n == Len(playerNames)
      IN /\ {position(p) : p \in Range(assigned(roundsArr[r]))} = window(r - 1, k, n)
         /\ Len(assigned(roundsArr[r])) = k

\* the window of the last of three rounds wraps around the end of the roster,
\* and the shuffle has moved the players of the first round
C17_Witness ==
    /\ genPc = "done"
    /\ Len(roundsArr) = MaxRounds
    /\ LET k == genCourts * PlayersPerCourt
           n == Len(playerNames)
       IN /\ (((MaxRounds - 1) * k) % n) + k > n
          /\ assigned(roundsArr[1]) # SubSeq(playerNames, 1, k)
          /\ window(1, k, n) # window(0, k, n)

\* C18: when the roster has at most 2 * courts * 4 players, no player rests in
\* two consecutive rounds.
C18_NoConsecutiveRest ==
    Len(playerNames) <= 2 * genCourts * PlayersPerCourt =>
        \A r \in DOMAIN roundsArr :
            (r + 1) \in DOMAIN roundsArr =>
                Range(roundsArr[r].resting) \cap Range(roundsArr[r + 1].resting) = {}

\* with at most 2 * courts * 4 players somebody rests, plays, and rests again
C18_Witness ==
    /\ Len(playerNames) <= 2 * genCourts * PlayersPerCourt
    /\ Len(roundsArr) >= 3
    /\ \E p \in Range(playerNames) :
          /\ p \in Range(roundsArr[1].resting)
          /\ p \notin Range(roundsArr[2].resting)
          /\ p \in Range(roundsArr[3].resting)

\* C19: after every round the games played never increase along the roster: a
\* player earlier in the roster has played at least as many games as a later one.
C19_GamesFollowRoster ==
    \A i \in DOMAIN playerNames : \A j \in DOMAIN playerNames :
        i < j =>
          /\ playerStats[playerNames[i]] >= playerStats[playerNames[j]]
          /\ gamesBefore(playerNames[i], Len(roundsArr) + 1)
                >= gamesBefore(playerNames[j], Len(roundsArr) + 1)

\* after at least two rounds the first of the roster has played more games than
\* the last
C19_Witness ==
    /\ round >= 2
    /\ playerStats[playerNames[1]] > playerStats[playerNames[Len(playerNames)]]
    /\ playerStats[playerNames[Len(playerNames)]] > 0

----------------------------------------------------------------------------
(* The rounds and the length of the session *)

\* a returned call of calculateRounds with the values the dials allow
DialCall ==
    /\ call.fn = "calculateRounds"
    /\ call.returned
    /\ call.durationHours \in MinDuration..MaxDuration
    /\ call.roundDuration \in MinRoundDuration..MaxRoundDuration
    /\ call.courts >= 1

\* C16 as claimed: for durationHours in 1..8, roundMinutes in 5..60 and
\* courtCount >= 1, calculateRounds(durationHours, roundMinutes, courtCount) *
\* roundMinutes <= durationHours * 60.
C16_RoundsFitSession ==
    DialCall => call.result * call.roundDuration <= call.durationHours * MinutesPerHour

\* C16 amended: for durationHours in 1..8, roundMinutes in 5..60 and
\* courtCount >= 1, the rounds fit the session exactly when
\* floor(durationHours * 60 / roundMinutes) >= courtCount; otherwise the result
\* is courtCount, and courtCount rounds are longer than the session.
C16_RoundsFitUnlessClamped ==
    DialCall =>
        LET raw == floorDiv(call.durationHours * MinutesPerHour, call.roundDuration)
            fits == call.result * call.roundDuration <= call.durationHours * MinutesPerHour
        IN /\ raw >= call.courts => fits
           /\ raw < call.courts => (call.result = call.courts /\ ~fits)

\* a call whose raw count is rounded down to a multiple of the courts and fits
C16_Witness ==
    /\ DialCall
    /\ call.courts > 1
    /\ call.result > call.courts
    /\ call.result < floorDiv(call.durationHours * MinutesPerHour, call.roundDuration)
    /\ call.result * call.roundDuration <= call.durationHours * MinutesPerHour

----------------------------------------------------------------------------
(* Wins and games *)

\* the cells of the ledger that hold a winner
setCells ==
    {cell \in {<<r, c>> : r \in DOMAIN winners, c \in 1..(MaxCourts + MaxGrowth)} :
        /\ cell[2] \in DOMAIN winners[cell[1]]
        /\ winners[cell[1]][cell[2]] # NullWinner}

\* C20: in every state reached by submits, regenerations and in-bounds
\* setCourtWinner calls, every roster player has at most as many wins as games
\* played, and the wins of all players add up to twice the number of ledger
\* cells that are not Unset.
C20_WinsBoundedByGames ==
    schedule # Null =>
        LET wins == getPlayerWins(schedule, players, winners)
            games == getPlayerStats(schedule, players)
        IN /\ \A p \in Range(players) : wins[p] <= games[p]
           /\ SumSeq([i \in DOMAIN players |-> wins[players[i]]])
                 = 2 * Cardinality(setCells)

\* two cells hold a winner; one player has won every game played, another has
\* played and won nothing
C20_Witness ==
    /\ schedule # Null
    /\ Cardinality(setCells) >= 2
    /\ LET wins == getPlayerWins(schedule, players, winners)
           games == getPlayerStats(schedule, players)
       IN /\ \E p \in Range(players) : wins[p] = games[p] /\ games[p] >= 2
          /\ \E p \in Range(players) : wins[p] = 0 /\ games[p] > 0

----------------------------------------------------------------------------
(* The rule of lines 69-71 *)

\* C21: validatePlayers never returns the "too many courts for player count"
\* result: for every list of names and every integer court count with
\* courts > floor(names.length / 4), one of the rules before it (fewer than 4
\* names, courts < 1, fewer than courts * 4 names) has already matched.
C21_TooManyCourtsUnreachable ==
    (call.fn = "validatePlayers" /\ call.returned) =>
        /\ violation(call.result) # "too many courts for player count"
        /\ call.courts > floorDiv(Len(call.playerNames), 4) =>
              violation(call.result) \in
                  {"insufficient players", "invalid court count",
                   "insufficient players for requested courts"}

\* a call that passes the first two rules with more courts than
\* floor(names.length / 4), names.length no multiple of 4, caught by the third
C21_Witness ==
    /\ call.fn = "validatePlayers"
    /\ call.returned
    /\ Len(call.playerNames) >= 4
    /\ call.courts >= 1
    /\ Len(call.playerNames) % 4 # 0
    /\ call.courts = floorDiv(Len(call.playerNames), 4) + 1
    /\ violation(call.result) = "insufficient players for requested courts"

====
